---------------------------- MODULE Spec2Model ----------------------------
(***************************************************************************)
(* Release tooling of butterfly-bot:                                       *)
(*   .github/scripts/generate_homebrew_formula.py  render_formula, main    *)
(*   the two launcher scripts that the rendered formula installs           *)
(*   scripts/generate_icons.py                     main                    *)
(*                                                                         *)
(* Text is modelled as a sequence of tokens (TLA+ strings); the            *)
(* concatenation of the tokens of a sequence is the text it stands for.    *)
(* The f-string of render_formula is kept in its source form: literal      *)
(* pieces, the escapes {{ and }}, and the replacement fields {url},        *)
(* {sha256}, {version}.  Formatting is done by Format, not assumed.        *)
(***************************************************************************)
EXTENDS Integers, Sequences, FiniteSets, TLC

VARIABLES
  \* render_formula called as a function
  version, url, sha256,   \* the three arguments (token sequences)
  formula,                \* the text returned by the last call
  raised,                 \* "none", or the exception the last call raised
  calls,                  \* number of calls made so far
  prev,                   \* the text returned by the call before the last
  rpc                     \* "idle" | "called"

rvars == <<version, url, sha256, formula, raised, calls, prev, rpc>>

VARIABLES
  \* one run of a launcher script
  launcher,               \* which of the two scripts runs
  env,                    \* the caller's environment: HOME, BUTTERFLY_BOT_DB
  argv,                   \* the invocation arguments "$@"
  approot, data, wasm,    \* what is at ~/.butterfly-bot, its data and wasm
  wasm0,                  \* what was at wasm when the script started
  lpc,                    \* the line the script is at
  shopts,                 \* shell options in force
  shvars,                 \* shell variables APP_ROOT and BUTTERFLY_BOT_DB
  exported,               \* BUTTERFLY_BOT_DB is in the environment of children
  cwd,                    \* working directory
  log,                    \* commands carried out so far
  failed,                 \* a command has failed or an expansion was an error
  process                 \* the binary exec'd: path, arguments, environment

lvars == <<launcher, env, argv, approot, data, wasm, wasm0, lpc, shopts,
           shvars, exported, cwd, log, failed, process>>

VARIABLES
  \* one run of main of generate_homebrew_formula.py
  cargv,                  \* the command line: each option given or not
  help,                   \* -h or --help is on the command line
  extra,                  \* an argument the parser does not know is on it
  parent, outfile,        \* what is at the output path and at its parent
  content,                \* the text of the output file
  fs0,                    \* parent, outfile and content when the run started
  cpc,                    \* "parse" | "render" | "mkdir" | "write" | "done" | "exit"
  exitcode,               \* exit status, -1 while running
  stdout,                 \* what the run printed: "" or "help"
  mformula                \* the local variable formula

cvars == <<cargv, help, extra, parent, outfile, content, fs0, cpc, exitcode,
           stdout, mformula>>

VARIABLES
  \* runs of main of generate_icons.py
  source,                 \* assets/icon.png
  tree,                   \* the icon file at each path under assets/icons/hicolor
  dirs,                   \* the <size>x<size>/apps directories that exist
  tree0, dirs0,           \* tree and dirs before the first run
  ipc,                    \* "check" | "open" | "loop" | "done" | "raised"
  iexc,                   \* the exception raised
  idx,                    \* position of the loop in sizes
  base,                   \* the converted source image
  runs,                   \* the run under way: 1, 2, ...
  written,                \* paths saved by the run under way
  snapshot                \* tree when the run under way started

ivars == <<source, tree, dirs, tree0, dirs0, ipc, iexc, idx, base, runs,
           written, snapshot>>

vars == <<rvars, lvars, cvars, ivars>>

-----------------------------------------------------------------------------
(* Bounds                                                                   *)

\* longest argument string built from Alphabet
MaxLen == 1

\* most invocation arguments given to a launcher
MaxArgs == 2

\* largest width and height of the source image
MaxDim == 2

\* runs of the icon script in a row
MaxRuns == 2

-----------------------------------------------------------------------------
(* f-string source of render_formula                                        *)

L(t) == [k |-> "lit",   s |-> t]      \* literal text
F(n) == [k |-> "field", s |-> n]      \* replacement field {n}
LB   == [k |-> "esc",   s |-> "{"]    \* {{ in the source
RB   == [k |-> "esc",   s |-> "}"]    \* }} in the source
NL   == [k |-> "lit",   s |-> "\n"]   \* end of a source line

\* generate_homebrew_formula.py lines 9-21
THeader ==
   <<
      L("class ButterflyBot < Formula"), NL,
      L("  desc \"Local-first AI assistant with CLI, daemon, desktop UI, and WASM tools\""), NL,
      L("  homepage \"https://github.com/truemagic-coder/butterfly-bot\""), NL,
      L("  url \""), F("url"), L("\""), NL,
      L("  sha256 \""), F("sha256"), L("\""), NL,
      L("  version \""), F("version"), L("\""), NL,
      L("  license \"MIT\""), NL,
      L("  head \"https://github.com/truemagic-coder/butterfly-bot.git\", branch: \"main\""), NL,
      NL,
      L("  depends_on \"pkgconf\" => :build"), NL,
      L("  depends_on \"rust\" => :build"), NL,
      L("  depends_on \"protobuf\" => :build"), NL,
      NL
   >>

\* generate_homebrew_formula.py lines 22-31
TInstall ==
   <<
      L("  def install"), NL,
      L("    system \"cargo\", \"build\", \"--release\", \"--locked\", \"--bin\", \"butterfly-bot\", \"--bin\", \"butterfly-botd\""), NL,
      NL,
      L("    libexec.install \"target/release/butterfly-bot\""), NL,
      L("    libexec.install \"target/release/butterfly-botd\""), NL,
      NL,
      L("    wasm_modules = Dir[\"wasm/*_tool.wasm\"]"), NL,
      L("    odie \"No wasm tool modules found under wasm/\" if wasm_modules.empty?"), NL,
      L("    pkgshare.install wasm_modules"), NL,
      NL
   >>

\* generate_homebrew_formula.py lines 32-51
TLauncherBot ==
   <<
      L("    (bin/\"butterfly-bot\").write <<~EOS"), NL,
      L("      #!/bin/bash"), NL,
      L("      set -euo pipefail"), NL,
      NL,
      L("      APP_ROOT=\""), L("$"), LB, L("HOME"), RB, L("/.butterfly-bot\""), NL,
      L("      "), L("mkdir -p"), L(" \""), L("$"), LB, L("APP_ROOT"), RB, L("\" \""), L("$"), LB, L("APP_ROOT"), RB, L("/data\""), NL,
      NL,
      L("      if [[ -e \""), L("$"), LB, L("APP_ROOT"), RB, L("/wasm\" && ! -L \""), L("$"), LB, L("APP_ROOT"), RB, L("/wasm\" ]]; then"), NL,
      L("        "), L("rm -rf"), L(" \""), L("$"), LB, L("APP_ROOT"), RB, L("/wasm\""), NL,
      L("      fi"), NL,
      L("      if [[ ! -L \""), L("$"), LB, L("APP_ROOT"), RB, L("/wasm\" ]]; then"), NL,
      L("        "), L("ln -sfn"), L(" \""), L("#"), LB, L("pkgshare"), RB, L("\" \""), L("$"), LB, L("APP_ROOT"), RB, L("/wasm\""), NL,
      L("      fi"), NL,
      NL,
      L("      "), L("cd"), L(" \""), L("$"), LB, L("APP_ROOT"), RB, L("\""), NL,
      L("      "), L("export"), L(" BUTTERFLY_BOT_DB=\""), L("$"), LB, L("BUTTERFLY_BOT_DB:-"), L("$"), LB, L("APP_ROOT"), RB, L("/data/butterfly-bot.db"), RB, L("\""), NL,
      NL,
      L("      "), L("exec"), L(" \""), L("#"), LB, L("libexec"), RB, L("/butterfly-bot\" \"$@\""), NL,
      L("    EOS"), NL,
      NL
   >>

\* TLauncherBotd written by copying the butterfly-bot script and renaming it,
\* without the --db argument
TLauncherBotdCopied ==
  [i \in DOMAIN TLauncherBot |->
     IF TLauncherBot[i] = L("    (bin/\"butterfly-bot\").write <<~EOS")
       THEN L("    (bin/\"butterfly-botd\").write <<~EOS")
     ELSE IF TLauncherBot[i] = L("/butterfly-bot\" \"$@\"")
       THEN L("/butterfly-botd\" \"$@\"")
     ELSE TLauncherBot[i]]

\* generate_homebrew_formula.py lines 52-71
TLauncherBotd ==
   <<
      L("    (bin/\"butterfly-botd\").write <<~EOS"), NL,
      L("      #!/bin/bash"), NL,
      L("      set -euo pipefail"), NL,
      NL,
      L("      APP_ROOT=\""), L("$"), LB, L("HOME"), RB, L("/.butterfly-bot\""), NL,
      L("      "), L("mkdir -p"), L(" \""), L("$"), LB, L("APP_ROOT"), RB, L("\" \""), L("$"), LB, L("APP_ROOT"), RB, L("/data\""), NL,
      NL,
      L("      if [[ -e \""), L("$"), LB, L("APP_ROOT"), RB, L("/wasm\" && ! -L \""), L("$"), LB, L("APP_ROOT"), RB, L("/wasm\" ]]; then"), NL,
      L("        "), L("rm -rf"), L(" \""), L("$"), LB, L("APP_ROOT"), RB, L("/wasm\""), NL,
      L("      fi"), NL,
      L("      if [[ ! -L \""), L("$"), LB, L("APP_ROOT"), RB, L("/wasm\" ]]; then"), NL,
      L("        "), L("ln -sfn"), L(" \""), L("#"), LB, L("pkgshare"), RB, L("\" \""), L("$"), LB, L("APP_ROOT"), RB, L("/wasm\""), NL,
      L("      fi"), NL,
      NL,
      L("      "), L("cd"), L(" \""), L("$"), LB, L("APP_ROOT"), RB, L("\""), NL,
      L("      "), L("export"), L(" BUTTERFLY_BOT_DB=\""), L("$"), LB, L("BUTTERFLY_BOT_DB:-"), L("$"), LB, L("APP_ROOT"), RB, L("/data/butterfly-bot.db"), RB, L("\""), NL,
      NL,
      L("      "), L("exec"), L(" \""), L("#"), LB, L("libexec"), RB, L("/butterfly-botd\" "), L("--db"), L(" \""), L("$"), LB, L("BUTTERFLY_BOT_DB"), RB, L("\" \"$@\""), NL,
      L("    EOS"), NL,
      NL
   >>

\* generate_homebrew_formula.py lines 72-75
TInstallEnd ==
   <<
      L("    chmod 0755, bin/\"butterfly-bot\""), NL,
      L("    chmod 0755, bin/\"butterfly-botd\""), NL,
      L("  end"), NL,
      NL
   >>

\* generate_homebrew_formula.py lines 76-89
TCaveats ==
   <<
      L("  def caveats"), NL,
      L("    <<~EOS"), NL,
      L("      Installed commands:"), NL,
      L("        butterfly-bot    (primary desktop app)"), NL,
      L("        butterfly-botd   (daemon launcher)"), NL,
      NL,
      L("      Runtime data directory:"), NL,
      L("        ~/.butterfly-bot"), NL,
      NL,
      L("      WASM tool modules are installed at:"), NL,
      L("        "), L("#"), LB, L("pkgshare"), RB, NL,
      L("    EOS"), NL,
      L("  end"), NL,
      NL
   >>

\* generate_homebrew_formula.py lines 90-94
TTest ==
   <<
      L("  test do"), NL,
      L("    output = shell_output(\""), L("#"), LB, L("bin"), RB, L("/butterfly-bot --help\")"), NL,
      L("    assert_match \"ButterFly Bot CLI\", output"), NL,
      L("  end"), NL,
      L("end"), NL
   >>

\* the whole f-string, lines 9-94
Template ==
  THeader \o TInstall \o TLauncherBot \o TLauncherBotd \o TInstallEnd \o TCaveats \o TTest

-----------------------------------------------------------------------------
(* Evaluation of the f-string                                               *)

\* Scope with the checksum parameter under another name than the field's
ScopeRenamed(v, u, s) == [version |-> v, url |-> u, checksum |-> s]

\* the names the f-string can see: the parameters of render_formula
Scope(v, u, s) == [version |-> v, url |-> u, sha256 |-> s]

\* Expand that escapes double quotes of a field's value
ExpandEscaping(tok, scope) ==
  CASE tok.k = "lit"   -> <<tok.s>>
    [] tok.k = "esc"   -> <<tok.s>>
    [] tok.k = "field" ->
         [i \in DOMAIN scope[tok.s] |->
            IF scope[tok.s][i] = "\"" THEN "\\\"" ELSE scope[tok.s][i]]

\* Expand that leaves {{ and }} doubled (the template used as a plain string)
ExpandNoUnescape(tok, scope) ==
  CASE tok.k = "lit"   -> <<tok.s>>
    [] tok.k = "esc"   -> <<tok.s, tok.s>>
    [] tok.k = "field" -> scope[tok.s]

\* one piece of the f-string: a literal stands for itself, {{ and }} for one
\* brace, a field for str(value) unchanged (format(value, "") of a str)
Expand(tok, scope) ==
  CASE tok.k = "lit"   -> <<tok.s>>
    [] tok.k = "esc"   -> <<tok.s>>
    [] tok.k = "field" -> scope[tok.s]

\* a field naming something outside the scope raises NameError
Resolves(tok, scope) == tok.k = "field" => tok.s \in DOMAIN scope

RECURSIVE Join(_, _, _, _)
Join(tpl, scope, lo, hi) ==
  IF lo > hi THEN <<>>
  ELSE IF lo = hi THEN Expand(tpl[lo], scope)
  ELSE LET mid == (lo + hi) \div 2
       IN  Join(tpl, scope, lo, mid) \o Join(tpl, scope, mid + 1, hi)

Format(tpl, scope) == Join(tpl, scope, 1, Len(tpl))

FormatRaises(tpl, scope) == \E i \in 1..Len(tpl) : ~Resolves(tpl[i], scope)

render_formula(v, u, s) == Format(Template, Scope(v, u, s))

render_raises(v, u, s) == FormatRaises(Template, Scope(v, u, s))

-----------------------------------------------------------------------------
(* Argument strings                                                         *)

Alphabet == {"1.2.3", "\"", " ", "\n"}

Strings(n) == UNION {[1..k -> Alphabet] : k \in 0..n}

\* placeholder-like text and the end-to-end example of the specification
Specials ==
  { <<"{", "version", "}">>,
    <<"#", "{", "pkgshare", "}">>,
    <<"https://example.com/release.tar.gz">>,
    <<"aaaaaaaaaaaaaaaaaaaaaaaaaaaaaaaaaaaaaaaaaaaaaaaaaaaaaaaaaaaaaaaa">> }

ArgStrings == Strings(MaxLen) \cup Specials

-----------------------------------------------------------------------------
(* Calls of render_formula                                                  *)

RenderInit ==
  /\ version \in ArgStrings
  /\ url \in ArgStrings
  /\ sha256 \in ArgStrings
  /\ formula = <<>>
  /\ raised = "none"
  /\ calls = 0
  /\ prev = <<>>
  /\ rpc = "idle"

DoRender ==
  /\ prev' = formula
  /\ calls' = calls + 1
  /\ rpc' = "called"
  /\ IF render_raises(version, url, sha256)
       THEN /\ raised' = "NameError"
            /\ formula' = <<>>
       ELSE /\ raised' = "none"
            /\ formula' = render_formula(version, url, sha256)
  /\ UNCHANGED <<version, url, sha256>>
  /\ UNCHANGED <<lvars, cvars, ivars>>

\* first call
Render ==
  /\ calls = 0
  /\ DoRender

\* a second call with the same arguments
RenderAgain ==
  /\ calls = 1
  /\ raised = "none"
  /\ DoRender

RenderNext == Render \/ RenderAgain

-----------------------------------------------------------------------------
(* Reading the rendered text                                                *)

\* positions at which sub occurs in text as a contiguous run of tokens
Occurs(sub, text) ==
  {i \in 1..(Len(text) + 1 - Len(sub)) : SubSeq(text, i, i + Len(sub) - 1) = sub}

Count(tok, text) == Cardinality({i \in 1..Len(text) : text[i] = tok})

Returned == rpc = "called" /\ raised = "none"

\* where the three values start in the text: the fields come in the order
\* url, sha256, version, each after the label of its line
IndexOf(name) == CHOOSE i \in 1..Len(Template) : Template[i] = F(name)
UrlAt(u, s, v) == IndexOf("url")
ShaAt(u, s, v) == IndexOf("sha256") + Len(u) - 1
VerAt(u, s, v) == IndexOf("version") + Len(u) + Len(s) - 2

\* the field of a line: label, value, closing quote, end of line
FieldIs(text, at, label, value) ==
  /\ at > 1
  /\ at + Len(value) + 1 <= Len(text)
  /\ text[at - 1] = label
  /\ SubSeq(text, at, at + Len(value) - 1) = value
  /\ text[at + Len(value)] = "\""
  /\ text[at + Len(value) + 1] = "\n"

\* the text with the three values taken out
Frame(text, u, s, v) ==
  SubSeq(text, 1, UrlAt(u, s, v) - 1)
    \o SubSeq(text, UrlAt(u, s, v) + Len(u), ShaAt(u, s, v) - 1)
    \o SubSeq(text, ShaAt(u, s, v) + Len(s), VerAt(u, s, v) - 1)
    \o SubSeq(text, VerAt(u, s, v) + Len(v), Len(text))

\* C1: every returned text holds the url, the checksum and the version
\* unchanged, each once, in the url, sha256 and version field, whatever
\* tokens (quotes, spaces, newlines, placeholder-like text) they are made of.
C1_SubstitutionFidelity ==
  Returned =>
    /\ FieldIs(formula, UrlAt(url, sha256, version), "  url \"", url)
    /\ FieldIs(formula, ShaAt(url, sha256, version), "  sha256 \"", sha256)
    /\ FieldIs(formula, VerAt(url, sha256, version), "  version \"", version)
    /\ Count("  url \"", formula) = 1
    /\ Count("  sha256 \"", formula) = 1
    /\ Count("  version \"", formula) = 1
    /\ Len(formula) = Len(Template) - 3 + Len(url) + Len(sha256) + Len(version)

C1_Witness ==
  /\ Returned
  /\ url = <<"\"">>
  /\ sha256 = <<"#", "{", "pkgshare", "}">>
  /\ version = <<"{", "version", "}">>

Placeholder(sigil, name) == <<sigil, "{", name, "}">>

ProbeArgs ==
  { <<<<>>, <<>>, <<>>>>,
    << <<"1.2.3">>, <<"https://example.com/release.tar.gz">>,
       <<"aaaaaaaaaaaaaaaaaaaaaaaaaaaaaaaaaaaaaaaaaaaaaaaaaaaaaaaaaaaaaaaa">> >>,
    << <<"{", "version", "}">>, <<"#", "{", "pkgshare", "}">>, <<"\"", "\n">> >> }

\* C2: outside the three fields the returned text is the same for every
\* triple, and that fixed text holds #{pkgshare} three times, #{libexec}
\* twice, #{bin} once, and ${HOME}, ${APP_ROOT}, ${BUTTERFLY_BOT_DB} with
\* single braces.
C2_PlaceholdersPreserved ==
  Returned =>
    LET frame == Frame(formula, url, sha256, version)
    IN  /\ Cardinality(Occurs(Placeholder("#", "pkgshare"), frame)) = 3
        /\ Cardinality(Occurs(Placeholder("#", "libexec"), frame)) = 2
        /\ Cardinality(Occurs(Placeholder("#", "bin"), frame)) = 1
        /\ Occurs(Placeholder("$", "HOME"), frame) # {}
        /\ Occurs(Placeholder("$", "APP_ROOT"), frame) # {}
        /\ Occurs(Placeholder("$", "BUTTERFLY_BOT_DB"), frame) # {}
        /\ Count("{", frame) = Count("}", frame)
        /\ \A p \in ProbeArgs :
             Frame(render_formula(p[1], p[2], p[3]), p[2], p[3], p[1]) = frame

C2_Witness ==
  /\ Returned
  /\ url = <<"#", "{", "pkgshare", "}">>
  /\ version = <<"{", "version", "}">>
  /\ Cardinality(Occurs(Placeholder("#", "pkgshare"), formula)) = 4

OpenBot  == "    (bin/\"butterfly-bot\").write <<~EOS"
OpenBotd == "    (bin/\"butterfly-botd\").write <<~EOS"
CloseHeredoc == "    EOS"

\* the lines of the heredoc opened by the token open
Block(text, open) ==
  LET i == CHOOSE k \in 1..Len(text) : text[k] = open
      j == CHOOSE k \in (i + 1)..Len(text) :
             /\ text[k] = CloseHeredoc
             /\ \A m \in (i + 1)..(k - 1) : text[m] # CloseHeredoc
  IN  SubSeq(text, i + 1, j - 1)

\* the line of the block that holds the exec word
ExecLine(block) ==
  LET e == CHOOSE k \in 1..Len(block) : block[k] = "exec"
      z == CHOOSE k \in e..Len(block) :
             /\ block[k] = "\n"
             /\ \A m \in e..(k - 1) : block[m] # "\n"
  IN  SubSeq(block, e, z)

BootstrapText ==
   <<
      "      APP_ROOT=\"", "$", "{", "HOME", "}", "/.butterfly-bot\"", "\n",
      "      ", "mkdir -p", " \"", "$", "{", "APP_ROOT", "}", "\" \"", "$", "{", "APP_ROOT", "}", "/data\"", "\n"
   >>

SymlinkText ==
   <<
      "      if [[ -e \"", "$", "{", "APP_ROOT", "}", "/wasm\" && ! -L \"", "$", "{", "APP_ROOT", "}", "/wasm\" ]]; then", "\n",
      "        ", "rm -rf", " \"", "$", "{", "APP_ROOT", "}", "/wasm\"", "\n",
      "      fi", "\n",
      "      if [[ ! -L \"", "$", "{", "APP_ROOT", "}", "/wasm\" ]]; then", "\n",
      "        ", "ln -sfn", " \"", "#", "{", "pkgshare", "}", "\" \"", "$", "{", "APP_ROOT", "}", "/wasm\"", "\n",
      "      fi", "\n"
   >>

LauncherBlockOk(block) ==
  /\ Cardinality(Occurs(BootstrapText, block)) = 1
  /\ Cardinality(Occurs(SymlinkText, block)) = 1
  /\ Count("exec", block) = 1

\* C4: every returned text holds exactly two launcher heredocs, one written
\* to bin/butterfly-bot and one to bin/butterfly-botd; each holds the
\* bootstrap lines, the symlink lines and one exec line; the exec line of
\* butterfly-botd holds --db and that of butterfly-bot does not.
C4_TwoLauncherBlocks ==
  Returned =>
    /\ Count(OpenBot, formula) = 1
    /\ Count(OpenBotd, formula) = 1
    /\ Count("      #!/bin/bash", formula) = 2
    /\ LauncherBlockOk(Block(formula, OpenBot))
    /\ LauncherBlockOk(Block(formula, OpenBotd))
    /\ Count("--db", ExecLine(Block(formula, OpenBotd))) = 1
    /\ Count("--db", ExecLine(Block(formula, OpenBot))) = 0
    /\ Count("--db", formula) = 1

C4_Witness ==
  /\ Returned
  /\ version = <<"\n">>
  /\ url = <<" ">>
  /\ Len(Block(formula, OpenBotd)) > Len(Block(formula, OpenBot))

-----------------------------------------------------------------------------
(* The launcher scripts written by the formula (template lines 33-49 and    *)
(* 53-69), run by bash in the user's environment                            *)

Launchers == {"butterfly-bot", "butterfly-botd"}

Unset == "<unset>"                  \* a variable the environment lacks

\* what Homebrew puts for #{pkgshare} and #{libexec} when the heredoc is written
PkgShare == "<pkgshare>"
LibExec  == "<libexec>"

HomeValues == {Unset, "/home/u"}
DbValues   == {Unset, "", "/srv/bot.db"}
ArgWords   == {"--help", "a b"}
ArgLists   == UNION {[1..k -> ArgWords] : k \in 0..MaxArgs}

\* what can be found at a path
DirStates  == {"absent", "dir", "file"}
WasmStates == {"absent", "file", "dir",
               "link:pkgshare", "link:other", "link:dangling"}

IsLink(w)   == w \in {"link:pkgshare", "link:other", "link:dangling"}
\* [[ -e p ]] follows links
Exists(w)   == w \in {"file", "dir", "link:pkgshare", "link:other"}

\* set -euo pipefail without the -e
ShellOptionsNoErrexit == {"u", "pipefail"}

\* line 34 / 54: set -euo pipefail
ShellOptions == {"e", "u", "pipefail"}

\* ${name-word}: the default only when the variable is unset
ParamDefaultUnsetOnly(value, word) == IF value = Unset THEN word ELSE value

\* ${name:-word} of line 47 / 67: the default when unset or null
ParamDefault(value, word) == IF value = Unset \/ value = "" THEN word ELSE value

\* the command line of the exec of line 49 and of line 69
ExecArgs(l, db, args) ==
  IF l = "butterfly-botd" THEN <<"--db", db>> \o args ELSE args

NoProcess == [bin |-> "", args |-> <<>>, db |-> Unset, cwd |-> ""]

LauncherInit ==
  /\ launcher \in Launchers
  /\ env \in [HOME : HomeValues, BUTTERFLY_BOT_DB : DbValues]
  /\ argv \in ArgLists
  /\ approot \in DirStates
  /\ data \in DirStates
  /\ wasm \in WasmStates
  /\ approot # "dir" => (data = "absent" /\ wasm = "absent")
  /\ wasm0 = wasm
  /\ lpc = "set"
  /\ shopts = {}
  /\ shvars = [APP_ROOT |-> Unset, BUTTERFLY_BOT_DB |-> env.BUTTERFLY_BOT_DB]
  /\ exported = (env.BUTTERFLY_BOT_DB # Unset)
  /\ cwd = "/"
  /\ log = <<>>
  /\ failed = FALSE
  /\ process = NoProcess

\* a failed simple command ends the script under errexit
AfterFailure(next) == IF "e" \in shopts THEN "exit" ELSE next

\* line 34: set -euo pipefail
LSet ==
  /\ lpc = "set"
  /\ shopts' = ShellOptions
  /\ lpc' = "approot"
  /\ UNCHANGED <<launcher, env, argv, approot, data, wasm, wasm0, shvars,
                 exported, cwd, log, failed, process>>
  /\ UNCHANGED <<rvars, cvars, ivars>>

\* line 36: APP_ROOT="${HOME}/.butterfly-bot"; an unset HOME is an error
\* under nounset and the empty string without it
LAppRoot ==
  /\ lpc = "approot"
  /\ IF env.HOME = Unset /\ "u" \in shopts
       THEN /\ lpc' = "exit"
            /\ failed' = TRUE
            /\ UNCHANGED shvars
       ELSE /\ lpc' = "mkdir"
            /\ shvars' = [shvars EXCEPT !.APP_ROOT =
                 (IF env.HOME = Unset THEN "" ELSE env.HOME) \o "/.butterfly-bot"]
            /\ UNCHANGED failed
  /\ UNCHANGED <<launcher, env, argv, approot, data, wasm, wasm0, shopts,
                 exported, cwd, log, process>>
  /\ UNCHANGED <<rvars, cvars, ivars>>

\* line 37: mkdir -p "${APP_ROOT}" "${APP_ROOT}/data"; fails when a file is
\* in the way, and may fail for lack of permission
LMkdir ==
  /\ lpc = "mkdir"
  /\ \E ok \in BOOLEAN :
       /\ (approot = "file" \/ data = "file") => ~ok
       /\ IF ok
            THEN /\ approot' = "dir"
                 /\ data' = "dir"
                 /\ log' = Append(log, "mkdir")
                 /\ lpc' = "test_e"
                 /\ UNCHANGED failed
            ELSE /\ failed' = TRUE
                 /\ lpc' = AfterFailure("test_e")
                 /\ UNCHANGED <<approot, data, log>>
  /\ UNCHANGED <<launcher, env, argv, wasm, wasm0, shopts, shvars, exported,
                 cwd, process>>
  /\ UNCHANGED <<rvars, cvars, ivars>>

\* line 39: if [[ -e "${APP_ROOT}/wasm" && ! -L "${APP_ROOT}/wasm" ]]
LTestNonLink ==
  /\ lpc = "test_e"
  /\ lpc' = IF Exists(wasm) /\ ~IsLink(wasm) THEN "rm" ELSE "test_L"
  /\ UNCHANGED <<launcher, env, argv, approot, data, wasm, wasm0, shopts,
                 shvars, exported, cwd, log, failed, process>>
  /\ UNCHANGED <<rvars, cvars, ivars>>

\* line 40: rm -rf "${APP_ROOT}/wasm"
LRm ==
  /\ lpc = "rm"
  /\ \E ok \in BOOLEAN :
       IF ok
         THEN /\ wasm' = "absent"
              /\ log' = Append(log, "rm")
              /\ lpc' = "test_L"
              /\ UNCHANGED failed
         ELSE /\ failed' = TRUE
              /\ lpc' = AfterFailure("test_L")
              /\ UNCHANGED <<wasm, log>>
  /\ UNCHANGED <<launcher, env, argv, approot, data, wasm0, shopts, shvars,
                 exported, cwd, process>>
  /\ UNCHANGED <<rvars, cvars, ivars>>

\* line 42: if [[ ! -L "${APP_ROOT}/wasm" ]]
LTestLink ==
  /\ lpc = "test_L"
  /\ lpc' = IF ~IsLink(wasm) THEN "ln" ELSE "cd"
  /\ UNCHANGED <<launcher, env, argv, approot, data, wasm, wasm0, shopts,
                 shvars, exported, cwd, log, failed, process>>
  /\ UNCHANGED <<rvars, cvars, ivars>>

\* line 43: ln -sfn "#{pkgshare}" "${APP_ROOT}/wasm"; over a real directory
\* the link is made inside it, anything else is replaced
LLn ==
  /\ lpc = "ln"
  /\ \E ok \in BOOLEAN :
       /\ approot # "dir" => ~ok
       /\ IF ok
            THEN /\ wasm' = IF wasm = "dir" THEN "dir" ELSE "link:pkgshare"
                 /\ log' = Append(log, "ln")
                 /\ lpc' = "cd"
                 /\ UNCHANGED failed
            ELSE /\ failed' = TRUE
                 /\ lpc' = AfterFailure("cd")
                 /\ UNCHANGED <<wasm, log>>
  /\ UNCHANGED <<launcher, env, argv, approot, data, wasm0, shopts, shvars,
                 exported, cwd, process>>
  /\ UNCHANGED <<rvars, cvars, ivars>>

\* line 46: cd "${APP_ROOT}"
LCd ==
  /\ lpc = "cd"
  /\ \E ok \in BOOLEAN :
       /\ approot # "dir" => ~ok
       /\ IF ok
            THEN /\ cwd' = shvars.APP_ROOT
                 /\ log' = Append(log, "cd")
                 /\ lpc' = "export"
                 /\ UNCHANGED failed
            ELSE /\ failed' = TRUE
                 /\ lpc' = AfterFailure("export")
                 /\ UNCHANGED <<cwd, log>>
  /\ UNCHANGED <<launcher, env, argv, approot, data, wasm, wasm0, shopts,
                 shvars, exported, process>>
  /\ UNCHANGED <<rvars, cvars, ivars>>

\* line 47: export BUTTERFLY_BOT_DB="${BUTTERFLY_BOT_DB:-${APP_ROOT}/data/butterfly-bot.db}"
LExport ==
  /\ lpc = "export"
  /\ shvars' = [shvars EXCEPT !.BUTTERFLY_BOT_DB =
       ParamDefault(shvars.BUTTERFLY_BOT_DB,
                    shvars.APP_ROOT \o "/data/butterfly-bot.db")]
  /\ exported' = TRUE
  /\ log' = Append(log, "export")
  /\ lpc' = "exec"
  /\ UNCHANGED <<launcher, env, argv, approot, data, wasm, wasm0, shopts,
                 cwd, failed, process>>
  /\ UNCHANGED <<rvars, cvars, ivars>>

\* line 49: exec "#{libexec}/butterfly-bot" "$@"
\* line 69: exec "#{libexec}/butterfly-botd" --db "${BUTTERFLY_BOT_DB}" "$@"
LExec ==
  /\ lpc = "exec"
  /\ process' = [bin  |-> LibExec \o "/" \o launcher,
                 args |-> ExecArgs(launcher, shvars.BUTTERFLY_BOT_DB, argv),
                 db   |-> IF exported THEN shvars.BUTTERFLY_BOT_DB ELSE Unset,
                 cwd  |-> cwd]
  /\ log' = Append(log, "exec")
  /\ lpc' = "running"
  /\ UNCHANGED <<launcher, env, argv, approot, data, wasm, wasm0, shopts,
                 shvars, exported, cwd, failed>>
  /\ UNCHANGED <<rvars, cvars, ivars>>

LauncherNext ==
  \/ LSet \/ LAppRoot \/ LMkdir \/ LTestNonLink \/ LRm \/ LTestLink
  \/ LLn \/ LCd \/ LExport \/ LExec

-----------------------------------------------------------------------------
(* Properties of the launcher scripts                                       *)

Execd == lpc = "running"

\* C3: when a launcher reaches exec, wasm is a symbolic link to the
\* package's share directory, whatever was at that path before.
C3_WasmLinksPkgShareAtExec ==
  Execd => wasm = "link:pkgshare"

DefaultDb == env.HOME \o "/.butterfly-bot/data/butterfly-bot.db"

ForwardsArgs(resolved) ==
  /\ process.bin = LibExec \o "/" \o launcher
  /\ process.args = IF launcher = "butterfly-botd"
                      THEN <<"--db", resolved>> \o argv
                      ELSE argv

\* C5 as stated: the exported database path is the caller's value whenever
\* the caller's environment defines the variable, the default otherwise.
C5_CallerValueWheneverDefined ==
  Execd =>
    LET resolved == IF env.BUTTERFLY_BOT_DB # Unset
                      THEN env.BUTTERFLY_BOT_DB ELSE DefaultDb
    IN  process.db = resolved /\ ForwardsArgs(resolved)

\* C5: the exported database path is the caller's value whenever the
\* caller's environment defines the variable with a non-empty value, and
\* <home>/.butterfly-bot/data/butterfly-bot.db when it is unset or empty;
\* the binary gets the invocation arguments unchanged and in order, after
\* --db <resolved path> in the daemon launcher.
C5_DbPathAndArgs ==
  Execd =>
    LET resolved == IF env.BUTTERFLY_BOT_DB \in {Unset, ""}
                      THEN DefaultDb ELSE env.BUTTERFLY_BOT_DB
    IN  process.db = resolved /\ ForwardsArgs(resolved)

C5_Witness ==
  /\ Execd
  /\ env.BUTTERFLY_BOT_DB = ""
  /\ launcher = "butterfly-botd"
  /\ argv = <<"a b", "--help">>
  /\ process.args = <<"--db", "/home/u/.butterfly-bot/data/butterfly-bot.db",
                      "a b", "--help">>

\* the commands a run that reaches exec has carried out, in order
ExpectedLog ==
  <<"mkdir">>
    \o (IF wasm0 \in {"file", "dir"} THEN <<"rm">> ELSE <<>>)
    \o (IF ~IsLink(wasm0) THEN <<"ln">> ELSE <<>>)
    \o <<"cd", "export", "exec">>

\* C10: the binary is exec'd only after mkdir, the wasm handling, cd and
\* export have been carried out in this order; once a step has failed, or
\* HOME is unset, the script has stopped and no binary is exec'd.
C10_ExecOnlyAfterBootstrap ==
  /\ Execd =>
       /\ log = ExpectedLog
       /\ ~failed
       /\ env.HOME # Unset
       /\ approot = "dir" /\ data = "dir"
       /\ IsLink(wasm)
       /\ process.cwd = env.HOME \o "/.butterfly-bot"
       /\ process.db # Unset
  /\ failed => (lpc = "exit" /\ process = NoProcess)
  /\ (env.HOME = Unset /\ lpc \notin {"set", "approot"}) => lpc = "exit"

C10_Witness ==
  /\ Execd
  /\ wasm0 = "dir"
  /\ log = <<"mkdir", "rm", "ln", "cd", "export", "exec">>

-----------------------------------------------------------------------------
(* main of generate_homebrew_formula.py                                     *)

Options == {"version", "url", "sha256", "output"}

\* --sha256 left optional
RequiredWithoutSha == {"version", "url", "output"}

\* lines 102-105: add_argument(..., required=True)
Required == {"version", "url", "sha256", "output"}

\* values given on the command line; a token sequence is the text of a value
CliValues == {<<>>, <<"1.2.3">>, <<"\"", "{", "version", "}">>}
OutPaths  == {<<"Formula/butterfly-bot.rb">>}

NotGiven == [given |-> FALSE, value |-> <<>>]
Given(v) == [given |-> TRUE, value |-> v]

CommandLines ==
  { [o \in Options |-> IF o = "output" THEN out ELSE IF o = "version" THEN v
                       ELSE IF o = "url" THEN u ELSE s] :
      v \in {NotGiven} \cup {Given(x) : x \in CliValues},
      u \in {NotGiven} \cup {Given(x) : x \in CliValues},
      s \in {NotGiven} \cup {Given(x) : x \in CliValues},
      out \in {NotGiven} \cup {Given(x) : x \in OutPaths} }

\* str(value) of a namespace attribute: None for an option left out
Str(a) == IF a.given THEN a.value ELSE <<"None">>

OldContent == <<"class Old < Formula", "\n">>
NoContent == <<>>

CliInit ==
  /\ cargv \in CommandLines
  /\ help \in BOOLEAN
  /\ extra \in BOOLEAN
  /\ stdout = ""
  /\ parent \in {"absent", "dir", "file"}
  /\ outfile \in {"absent", "dir", "file"}
  /\ (parent # "dir") => (outfile = "absent")
  /\ content = IF outfile = "file" THEN OldContent ELSE NoContent
  /\ fs0 = <<parent, outfile, content>>
  /\ cpc = "parse"
  /\ exitcode = -1
  /\ mformula = <<>>

\* lines 99-106: parse_args. The parser is built with the default
\* add_help, so -h/--help prints the help and ends the run with status 0
\* where it is met; a missing required option or an unrecognised argument
\* ends the run with status 2
Parse ==
  /\ cpc = "parse"
  /\ IF help
       THEN cpc' = "exit" /\ exitcode' = 0 /\ stdout' = "help"
       ELSE IF (\E o \in Required : ~cargv[o].given) \/ extra
         THEN cpc' = "exit" /\ exitcode' = 2 /\ UNCHANGED stdout
         ELSE cpc' = "render" /\ UNCHANGED <<exitcode, stdout>>
  /\ UNCHANGED <<cargv, help, extra, parent, outfile, content, fs0, mformula>>
  /\ UNCHANGED <<rvars, lvars, ivars>>

\* line 108
CallRender ==
  /\ cpc = "render"
  /\ mformula' = render_formula(Str(cargv["version"]), Str(cargv["url"]),
                                Str(cargv["sha256"]))
  /\ cpc' = "mkdir"
  /\ UNCHANGED <<cargv, help, extra, parent, outfile, content, fs0, exitcode,
                 stdout>>
  /\ UNCHANGED <<rvars, lvars, ivars>>

\* lines 109-110: out_path.parent.mkdir(parents=True, exist_ok=True)
MkdirParent ==
  /\ cpc = "mkdir"
  /\ \E ok \in BOOLEAN :
       /\ parent = "file" => ~ok
       /\ parent = "dir" => ok
       /\ IF ok
            THEN parent' = "dir" /\ cpc' = "write" /\ UNCHANGED exitcode
            ELSE cpc' = "exit" /\ exitcode' = 1 /\ UNCHANGED parent
  /\ UNCHANGED <<cargv, help, extra, outfile, content, fs0, stdout, mformula>>
  /\ UNCHANGED <<rvars, lvars, ivars>>

\* line 111: out_path.write_text(formula, encoding="utf-8")
WriteText ==
  /\ cpc = "write"
  /\ \E ok \in BOOLEAN :
       /\ outfile = "dir" => ~ok
       /\ IF ok
            THEN /\ outfile' = "file"
                 /\ content' = mformula
                 /\ cpc' = "done"
                 /\ exitcode' = 0
            ELSE /\ cpc' = "exit"
                 /\ exitcode' = 1
                 /\ UNCHANGED <<outfile, content>>
  /\ UNCHANGED <<cargv, help, extra, parent, fs0, stdout, mformula>>
  /\ UNCHANGED <<rvars, lvars, ivars>>

CliNext == Parse \/ CallRender \/ MkdirParent \/ WriteText

SomeMissing == \E o \in Options : ~cargv[o].given

Untouched == <<parent, outfile, content>> = fs0

WrittenAsRendered ==
  /\ exitcode = 0
  /\ parent = "dir" /\ outfile = "file"
  /\ content = render_formula(cargv["version"].value, cargv["url"].value,
                              cargv["sha256"].value)

-----------------------------------------------------------------------------
(* main of generate_icons.py                                                *)

\* line 14
sizes == <<16, 24, 32, 48, 64, 128, 256, 512>>

SizeSet == {sizes[i] : i \in 1..Len(sizes)}

\* a path of another size, left by something else
OtherSizes == {1024}

\* the <size>x<size>/apps/butterfly-bot.png paths, named by their size
IconPaths == SizeSet \cup OtherSizes

NoFile == [w |-> 0, h |-> 0, of |-> <<0, 0>>]
Stale  == [w |-> 1, h |-> 1, of |-> <<0, 0>>]

\* assets/icon.png: absent, or an image of some width and height
Sources == {NoFile} \cup {[w |-> a, h |-> b, of |-> <<a, b>>] : a, b \in 1..MaxDim}

\* resize that keeps the aspect ratio of the source (as thumbnail does)
ResizeKeepingAspect(img, size) ==
  [w |-> size, h |-> (size * img.h + img.w - 1) \div img.w, of |-> img.of]

\* line 29: base.resize((size, size), Image.Resampling.LANCZOS)
Resize(img, size) == [w |-> size, h |-> size, of |-> img.of]

\* a missing source reported and the run ended normally
OnMissingSourceReturn == [pc |-> "done", exc |-> "none"]

\* lines 11-12: raise FileNotFoundError
OnMissingSource == [pc |-> "raised", exc |-> "FileNotFoundError"]

IconsInit ==
  /\ source \in Sources
  /\ \E old \in SUBSET ({16, 512} \cup OtherSizes) :
       tree = [p \in IconPaths |-> IF p \in old THEN Stale ELSE NoFile]
  /\ dirs = {p \in IconPaths : tree[p] # NoFile}
  /\ tree0 = tree
  /\ dirs0 = dirs
  /\ ipc = "check"
  /\ iexc = "none"
  /\ idx = 1
  /\ base = NoFile
  /\ runs = 1
  /\ written = {}
  /\ snapshot = tree

\* lines 9-12
CheckSource ==
  /\ ipc = "check"
  /\ IF source = NoFile
       THEN ipc' = OnMissingSource.pc /\ iexc' = OnMissingSource.exc
       ELSE ipc' = "open" /\ UNCHANGED iexc
  /\ UNCHANGED <<source, tree, dirs, tree0, dirs0, idx, base, runs, written,
                 snapshot>>
  /\ UNCHANGED <<rvars, lvars, cvars>>

\* lines 16-17: Image.open(source_icon), image.convert("RGBA")
OpenSource ==
  /\ ipc = "open"
  /\ base' = source
  /\ idx' = 1
  /\ ipc' = "loop"
  /\ UNCHANGED <<source, tree, dirs, tree0, dirs0, iexc, runs, written,
                 snapshot>>
  /\ UNCHANGED <<rvars, lvars, cvars>>

\* lines 18-30: one turn of the loop; mkdir or save may raise OSError
ResizeAndSave ==
  /\ ipc = "loop"
  /\ idx <= Len(sizes)
  /\ \E ok \in BOOLEAN :
       IF ok
         THEN /\ dirs' = dirs \cup {sizes[idx]}
              /\ tree' = [tree EXCEPT ![sizes[idx]] = Resize(base, sizes[idx])]
              /\ written' = written \cup {sizes[idx]}
              /\ idx' = idx + 1
              /\ UNCHANGED <<ipc, iexc>>
         ELSE /\ ipc' = "raised"
              /\ iexc' = "OSError"
              /\ UNCHANGED <<dirs, tree, written, idx>>
  /\ UNCHANGED <<source, tree0, dirs0, base, runs, snapshot>>
  /\ UNCHANGED <<rvars, lvars, cvars>>

\* line 32
PrintSummary ==
  /\ ipc = "loop"
  /\ idx > Len(sizes)
  /\ ipc' = "done"
  /\ UNCHANGED <<source, tree, dirs, tree0, dirs0, iexc, idx, base, runs,
                 written, snapshot>>
  /\ UNCHANGED <<rvars, lvars, cvars>>

\* the script run again with the same source
RunAgain ==
  /\ ipc = "done"
  /\ source # NoFile
  /\ runs < MaxRuns
  /\ runs' = runs + 1
  /\ snapshot' = tree
  /\ written' = {}
  /\ ipc' = "check"
  /\ UNCHANGED <<source, tree, dirs, tree0, dirs0, iexc, idx, base>>
  /\ UNCHANGED <<rvars, lvars, cvars>>

IconsNext == CheckSource \/ OpenSource \/ ResizeAndSave \/ PrintSummary \/ RunAgain

\* C7: with assets/icon.png missing the run raises FileNotFoundError and
\* creates no directory and writes no file.
C7_MissingSourceNoOutput ==
  (source = NoFile /\ ipc # "check") =>
    /\ ipc = "raised"
    /\ iexc = "FileNotFoundError"
    /\ tree = tree0
    /\ dirs = dirs0
    /\ written = {}

C7_Witness ==
  /\ source = NoFile
  /\ ipc = "raised"
  /\ tree0[16] = Stale
  /\ tree[24] = NoFile

\* C8: a completed run has written exactly the 8 paths of the sizes 16, 24,
\* 32, 48, 64, 128, 256, 512, each a square image of that edge length, for
\* a source of any width and height; a second run leaves the same 8 files
\* with the same content and adds none.
C8_EightSquareIconsIdempotent ==
  (ipc = "done" /\ source # NoFile) =>
    /\ written = {16, 24, 32, 48, 64, 128, 256, 512}
    /\ Cardinality(written) = 8
    /\ \A p \in written :
         /\ tree[p].w = p /\ tree[p].h = p
         /\ tree[p].of = source.of
         /\ p \in dirs
    /\ \A p \in OtherSizes : tree[p] = tree0[p]
    /\ runs > 1 => tree = snapshot

C8_Witness ==
  /\ ipc = "done"
  /\ runs = 2
  /\ source.w # source.h
  /\ tree0[16] = Stale
  /\ tree = snapshot

-----------------------------------------------------------------------------
(* Specifications: one per program, the others at rest                      *)

RenderIdle ==
  /\ version = <<>> /\ url = <<>> /\ sha256 = <<>>
  /\ formula = <<>> /\ raised = "none" /\ calls = 0 /\ prev = <<>>
  /\ rpc = "rest"

LauncherIdle ==
  /\ launcher = "butterfly-bot"
  /\ env = [HOME |-> Unset, BUTTERFLY_BOT_DB |-> Unset]
  /\ argv = <<>>
  /\ approot = "absent" /\ data = "absent" /\ wasm = "absent" /\ wasm0 = "absent"
  /\ lpc = "rest"
  /\ shopts = {}
  /\ shvars = [APP_ROOT |-> Unset, BUTTERFLY_BOT_DB |-> Unset]
  /\ exported = FALSE
  /\ cwd = "/"
  /\ log = <<>>
  /\ failed = FALSE
  /\ process = NoProcess

CliIdle ==
  /\ cargv = [o \in Options |-> NotGiven]
  /\ help = FALSE /\ extra = FALSE /\ stdout = ""
  /\ parent = "absent" /\ outfile = "absent" /\ content = NoContent
  /\ fs0 = <<"absent", "absent", NoContent>>
  /\ cpc = "rest"
  /\ exitcode = -1
  /\ mformula = <<>>

IconsIdle ==
  /\ source = NoFile
  /\ tree = [p \in IconPaths |-> NoFile]
  /\ dirs = {}
  /\ tree0 = tree /\ dirs0 = {}
  /\ ipc = "rest"
  /\ iexc = "none"
  /\ idx = 1
  /\ base = NoFile
  /\ runs = 1
  /\ written = {}
  /\ snapshot = tree

InitRender == RenderInit /\ LauncherIdle /\ CliIdle /\ IconsIdle
SpecRender == InitRender /\ [][RenderNext]_vars

InitLauncher == LauncherInit /\ RenderIdle /\ CliIdle /\ IconsIdle
SpecLauncher == InitLauncher /\ [][LauncherNext]_vars

InitCli == CliInit /\ RenderIdle /\ LauncherIdle /\ IconsIdle
SpecCli == InitCli /\ [][CliNext]_vars

InitIcons == IconsInit /\ RenderIdle /\ LauncherIdle /\ CliIdle
SpecIcons == InitIcons /\ [][IconsNext]_vars

=============================================================================
